---- MODULE Spec2Model ----
(***************************************************************************)
(* Model of mcp-text-utils: the hand-written JSON-RPC dispatcher of the    *)
(* root server.py (mcp_endpoint, health, discover) and the text tools of   *)
(* the mcp_text_utils package (reverse_text, transform_case, truncate,     *)
(* slugify).                                                               *)
(*                                                                         *)
(* A Python str is a sequence of one-character strings.  A JSON value is   *)
(* a record [t, v, s]: t its type, v its literal (for scalars), s its      *)
(* characters (for a string used as text).                                 *)
(***************************************************************************)
EXTENDS Integers, Sequences, FiniteSets, TLC

VARIABLES
    op,         \* the operation that ran last ("none" before any)
    inp,        \* its input
    out,        \* its outcome
    clock,      \* the last reading of datetime.now()
    TOOLS,      \* server.py: the module-level list of tool descriptors
    TOOL_FUNCTIONS  \* server.py: the module-level map name -> function (its keys)

vars == <<op, inp, out, clock, TOOLS, TOOL_FUNCTIONS>>

---------------------------------------------------------------------------
(* Bounds *)

MaxTextLen == 4        \* longest text handed to truncate / reverse_text
MaxCaseLen == 3        \* longest text handed to transform_case
MaxSuffixLen == 2      \* longest truncate suffix
MaxLength == 4         \* largest max_length
MaxNegLength == 2      \* max_length ranges down to -MaxNegLength
MaxArgLen == 2         \* longest text inside a tools/call request
MaxClock == 1          \* datetime.now() readings 0..MaxClock
MaxSlugLen == 4        \* longest text handed to slugify
MaxRequests == 3       \* longest sequence of requests of one session

---------------------------------------------------------------------------
(* Python str primitives *)

LowerChars == {"a"}
UpperChars == {"A"}
DigitChars == {"1"}
SepChars == {"_", "-", " "}
AlnumChars == LowerChars \cup UpperChars \cup DigitChars
Chars == AlnumChars \cup SepChars

\* every str over alphabet A of length 0..n
StrUpTo(A, n) == UNION {[1..k -> A] : k \in 0..n}

IsLower(c) == c \in LowerChars
IsUpper(c) == c \in UpperChars
IsDigit(c) == c \in DigitChars
IsAlnum(c) == c \in AlnumChars

\* str.lower / str.upper on one character
LowerChar(c) == IF c = "A" THEN "a" ELSE c
UpperChar(c) == IF c = "a" THEN "A" ELSE c

lower(s) == [i \in 1..Len(s) |-> LowerChar(s[i])]
upper(s) == [i \in 1..Len(s) |-> UpperChar(s[i])]

\* a capitalize that upper-cases the whole word, like str.upper
capitalize_all_upper(s) == [i \in 1..Len(s) |-> UpperChar(s[i])]

\* str.capitalize: first character upper-cased, the rest lower-cased
capitalize(s) == [i \in 1..Len(s) |-> IF i = 1 THEN UpperChar(s[i]) ELSE LowerChar(s[i])]

\* s[::-1]
Reversed(s) == [i \in 1..Len(s) |-> s[Len(s) + 1 - i]]

\* s[:n] with Python's slice semantics (negative n counts from the end)
Min(a, b) == IF a < b THEN a ELSE b
Max(a, b) == IF a > b THEN a ELSE b
SliceTo(s, n) ==
    LET stop == IF n < 0 THEN Max(Len(s) + n, 0) ELSE Min(n, Len(s))
    IN SubSeq(s, 1, stop)

\* s.rfind(" "): 0-based index of the last space, -1 when there is none
rfind_space(s) ==
    LET hits == {i \in 1..Len(s) : s[i] = " "}
    IN IF hits = {} THEN -1 ELSE (CHOOSE i \in hits : \A j \in hits : j <= i) - 1

\* s.rstrip(): drop trailing whitespace
RECURSIVE rstrip(_)
rstrip(s) ==
    IF Len(s) > 0 /\ s[Len(s)] = " " THEN rstrip(SubSeq(s, 1, Len(s) - 1)) ELSE s

\* s.endswith(suffix)
endswith(s, suffix) ==
    /\ Len(suffix) <= Len(s)
    /\ SubSeq(s, Len(s) - Len(suffix) + 1, Len(s)) = suffix

\* sep.join(words)
RECURSIVE join(_, _)
join(sep, words) ==
    IF Len(words) = 0 THEN <<>>
    ELSE IF Len(words) = 1 THEN words[1]
    ELSE words[1] \o sep \o join(sep, Tail(words))

\* [f(w) for w in words]
MapSeq(F(_), words) == [i \in 1..Len(words) |-> F(words[i])]

---------------------------------------------------------------------------
(* mcp_text_utils/api_models.py: case detection and conversion *)

\* ^[first][rest]*(sep[rest]+)+$
MatchDelimited(s, first, rest, sep) ==
    /\ Len(s) >= 1
    /\ s[1] \in first
    /\ \A i \in 2..Len(s) : s[i] \in rest \cup {sep}
    /\ \E i \in 1..Len(s) : s[i] = sep
    /\ s[Len(s)] # sep
    /\ \A i \in 1..(Len(s) - 1) : ~(s[i] = sep /\ s[i + 1] = sep)

\* ^[first][a-zA-Z0-9]*$
MatchAlnum(s, first) ==
    /\ Len(s) >= 1
    /\ s[1] \in first
    /\ \A i \in 2..Len(s) : IsAlnum(s[i])

\* ^[A-Z][a-z]+(?: [A-Z][a-z]+)+$
MatchTitle(s) ==
    /\ Len(s) >= 1
    /\ IsUpper(s[1])
    /\ IsLower(s[Len(s)])
    /\ \E i \in 1..Len(s) : s[i] = " "
    /\ \A i \in 1..Len(s) :
        /\ IsUpper(s[i]) \/ IsLower(s[i]) \/ s[i] = " "
        /\ s[i] = " " => (i < Len(s) /\ IsUpper(s[i + 1]))
        /\ IsUpper(s[i]) => (/\ i = 1 \/ s[i - 1] = " "
                             /\ i < Len(s) /\ IsLower(s[i + 1]))

CASE_FORMATS == <<"snake_case", "SCREAMING_SNAKE_CASE", "camelCase",
                  "PascalCase", "kebab-case", "Title Case">>

PatternMatches(name, s) ==
    CASE name = "snake_case" ->
            MatchDelimited(s, LowerChars, LowerChars \cup DigitChars, "_")
      [] name = "SCREAMING_SNAKE_CASE" ->
            MatchDelimited(s, UpperChars, UpperChars \cup DigitChars, "_")
      [] name = "camelCase" -> MatchAlnum(s, LowerChars)
      [] name = "PascalCase" -> MatchAlnum(s, UpperChars)
      [] name = "kebab-case" ->
            MatchDelimited(s, LowerChars, LowerChars \cup DigitChars, "-")
      [] name = "Title Case" -> MatchTitle(s)

\* the first pattern of CASE_FORMATS, in order, that matches; else "unknown"
detect_case(text) ==
    LET hits == {i \in 1..Len(CASE_FORMATS) : PatternMatches(CASE_FORMATS[i], text)}
    IN IF hits = {} THEN "unknown"
       ELSE CASE_FORMATS[CHOOSE i \in hits : \A j \in hits : i <= j]

\* re.sub(r"([a-z0-9])([A-Z])", r"\1_\2", s), scanning from position i
RECURSIVE SubLowerUpper(_, _)
SubLowerUpper(s, i) ==
    IF i > Len(s) THEN <<>>
    ELSE IF /\ i < Len(s)
            /\ (IsLower(s[i]) \/ IsDigit(s[i]))
            /\ IsUpper(s[i + 1])
         THEN <<s[i], "_", s[i + 1]>> \o SubLowerUpper(s, i + 2)
         ELSE <<s[i]>> \o SubLowerUpper(s, i + 1)

\* the last index of the run of upper-case letters that starts at i
RECURSIVE UpperRunEnd(_, _)
UpperRunEnd(s, i) ==
    IF i < Len(s) /\ IsUpper(s[i + 1]) THEN UpperRunEnd(s, i + 1) ELSE i

\* re.sub(r"([A-Z]+)([A-Z][a-z])", r"\1_\2", s), scanning from position i:
\* the greedy [A-Z]+ takes the whole run and gives back its last letter
RECURSIVE SubUpperRun(_, _)
SubUpperRun(s, i) ==
    IF i > Len(s) THEN <<>>
    ELSE LET e == UpperRunEnd(s, i)
         IN IF /\ IsUpper(s[i])
               /\ e > i
               /\ e < Len(s)
               /\ IsLower(s[e + 1])
            THEN SubSeq(s, i, e - 1) \o <<"_", s[e], s[e + 1]>> \o SubUpperRun(s, e + 2)
            ELSE <<s[i]>> \o SubUpperRun(s, i + 1)

\* re.split(r"[^a-zA-Z0-9]+", s) without the empty pieces; cur is the piece
\* being read
RECURSIVE SplitNonAlnum(_, _, _)
SplitNonAlnum(s, i, cur) ==
    IF i > Len(s) THEN (IF cur = <<>> THEN <<>> ELSE <<cur>>)
    ELSE IF IsAlnum(s[i]) THEN SplitNonAlnum(s, i + 1, Append(cur, s[i]))
    ELSE (IF cur = <<>> THEN <<>> ELSE <<cur>>) \o SplitNonAlnum(s, i + 1, <<>>)

split_words(text) ==
    LET t1 == SubLowerUpper(text, 1)
        t2 == SubUpperRun(t1, 1)
    IN MapSeq(lower, SplitNonAlnum(t2, 1, <<>>))

\* the outcome of a call: a value, or an exception with its str()
Return(value) == [exc |-> "", msg |-> "", value |-> value]
Raise(exc, msg) == [exc |-> exc, msg |-> msg, value |-> <<>>]

to_case(words, target) ==
    CASE target = "snake_case" -> Return(join(<<"_">>, words))
      [] target = "SCREAMING_SNAKE_CASE" -> Return(join(<<"_">>, MapSeq(upper, words)))
      [] target = "camelCase" ->
            IF Len(words) = 0 THEN Raise("IndexError", "list index out of range")
            ELSE Return(words[1] \o join(<<>>, MapSeq(capitalize, Tail(words))))
      [] target = "PascalCase" -> Return(join(<<>>, MapSeq(capitalize, words)))
      [] target = "kebab-case" -> Return(join(<<"-">>, words))
      [] target = "Title Case" -> Return(join(<<" ">>, MapSeq(capitalize, words)))
      [] OTHER -> Return(join(<<"_">>, words))

---------------------------------------------------------------------------
(* mcp_text_utils/server.py: the tools *)

VALID_CASES == <<"snake_case", "SCREAMING_SNAKE_CASE", "camelCase",
                 "PascalCase", "kebab-case", "Title Case">>

InSeq(x, seq) == \E i \in 1..Len(seq) : seq[i] = x

\* ", ".join(names) for a list of names
RECURSIVE JoinNames(_)
JoinNames(names) ==
    IF Len(names) = 0 THEN ""
    ELSE IF Len(names) = 1 THEN names[1]
    ELSE names[1] \o ", " \o JoinNames(Tail(names))

\* a reverse_text that loses the last character
reverse_text_drops_last(text) ==
    [original |-> text, reversed |-> Reversed(SliceTo(text, -1)), length |-> Len(text)]

reverse_text(text) ==
    [original |-> text, reversed |-> Reversed(text), length |-> Len(text)]

transform_case(text, target) ==
    IF ~InSeq(target, VALID_CASES)
    THEN Raise("ValueError",
               "Unknown target case '" \o target \o "'. Valid: " \o JoinNames(VALID_CASES))
    ELSE LET detected == detect_case(text)
             words == split_words(text)
             transformed == to_case(words, target)
         IN IF transformed.exc # "" THEN transformed
            ELSE Return([original |-> text,
                         transformed |-> transformed.value,
                         from_format |-> detected,
                         to_format |-> target])

\* a truncate that forgets to leave room for the suffix
truncated_text_no_room(text, max_length, suffix) ==
    LET limit == max_length
        cut == SliceTo(text, limit)
        last_space == rfind_space(cut)
        kept == IF last_space > 0 THEN SliceTo(cut, last_space) ELSE cut
    IN IF limit <= 0 THEN SliceTo(suffix, max_length)
       ELSE rstrip(kept) \o suffix

\* a truncate that strips the whitespace after appending the suffix
truncated_text_strip_last(text, max_length, suffix) ==
    LET limit == max_length - Len(suffix)
        cut == SliceTo(text, limit)
        last_space == rfind_space(cut)
        kept == IF last_space > 0 THEN SliceTo(cut, last_space) ELSE cut
    IN IF limit <= 0 THEN SliceTo(suffix, max_length)
       ELSE rstrip(kept \o suffix)

\* truncate, lines 118-126: the string returned when len(text) > max_length
truncated_text(text, max_length, suffix) ==
    LET limit == max_length - Len(suffix)
        cut == SliceTo(text, limit)
        last_space == rfind_space(cut)
        kept == IF last_space > 0 THEN SliceTo(cut, last_space) ELSE cut
    IN IF limit <= 0 THEN SliceTo(suffix, max_length)
       ELSE rstrip(kept) \o suffix

truncate(text, max_length, suffix) ==
    IF Len(text) <= max_length
    THEN [original |-> text,
          truncated |-> text,
          original_length |-> Len(text),
          truncated_length |-> Len(text),
          was_truncated |-> FALSE]
    ELSE LET truncated == truncated_text(text, max_length, suffix)
         IN [original |-> text,
             truncated |-> truncated,
             original_length |-> Len(text),
             truncated_length |-> Len(truncated),
             was_truncated |-> TRUE]

---------------------------------------------------------------------------
(* JSON values of a request body *)

J(t, v) == [t |-> t, v |-> v, s |-> <<>>]
Absent == J("absent", "")              \* the key is not in the mapping
JNull == J("null", "None")
JNum(v) == J("num", v)
JStr(v) == J("str", v)                 \* a string used as a name
JText(s) == [t |-> "str", v |-> "", s |-> s]   \* a string used as text
JArr == J("array", "[]")               \* the empty list
JDict == J("object", "{}")             \* the empty mapping

\* d.get(key): None when the key is absent
Get(x) == IF x.t = "absent" THEN JNull ELSE x

\* type(x).__name__
TypeName(t) ==
    CASE t = "null" -> "NoneType"
      [] t = "array" -> "list"
      [] t = "object" -> "dict"
      [] t = "num" -> "int"
      [] OTHER -> "str"

\* `arguments` of tools/call: a mapping with optional keys text and target,
\* or something that is no mapping
Args(t, text, target) == [t |-> t, text |-> text, target |-> target]
NoArgs == Args("object", Absent, Absent)        \* {}

\* `params`: a mapping with optional keys name and arguments, or no mapping
Params(t, name, arguments) == [t |-> t, name |-> name, arguments |-> arguments]
NoParams == Params("object", Absent, Args("absent", Absent, Absent))   \* {}

ArgChars == {"a", "A", "1", " "}

TextValues == {Absent, JNull, JNum("5"), JArr} \cup {JText(s) : s \in StrUpTo(ArgChars, MaxArgLen)}
TargetValues == {Absent, JStr("camelCase"), JStr("not_a_case")}
ArgumentsValues ==
    {Args("absent", Absent, Absent), Args("null", Absent, Absent), Args("array", Absent, Absent)}
    \cup {Args("object", x, y) : x \in TextValues, y \in TargetValues}

PackageTools == {"reverse_text", "text_info", "transform_case", "slugify",
                 "extract_urls", "truncate", "count_tokens"}
NameValues == {Absent, JNull, JNum("7"), JArr, JDict, JStr("no_such_tool")}
              \cup {JStr(n) : n \in PackageTools}
ParamsValues ==
    {Params("absent", Absent, Args("absent", Absent, Absent)),
     Params("null", Absent, Args("absent", Absent, Absent)),
     Params("array", Absent, Args("absent", Absent, Absent)),
     Params("str", Absent, Args("absent", Absent, Absent))}
    \cup {Params("object", n, a) : n \in NameValues, a \in ArgumentsValues}

KnownMethods == {"initialize", "initialized", "tools/list", "tools/call"}
MethodValues == {Absent, JNum("1"), JStr("ping")} \cup {JStr(m) : m \in KnownMethods}
IdValues == {Absent, JNull, JNum("1"), JStr("abc")}

\* the body of a POST /mcp: `body` is what request.json() makes of it
Request(body, method, params, id) ==
    [body |-> body, method |-> method, params |-> params, id |-> id]
ObjectRequests ==
    {Request("object", m, p, i) : m \in MethodValues, p \in ParamsValues, i \in IdValues}
OtherRequests ==
    {Request(b, Absent, Params("absent", Absent, Args("absent", Absent, Absent)), Absent) :
        b \in {"malformed", "array", "str", "num", "null"}}
Requests == ObjectRequests \cup OtherRequests

---------------------------------------------------------------------------
(* server.py: the tools of the dispatcher *)

InitialTOOLS ==
    << [name |-> "reverse_text",
        description |-> "Reverse the characters in a text string",
        required |-> <<"text">>],
       [name |-> "text_info",
        description |-> "Get information about a text string",
        required |-> <<"text">>] >>

InitialTOOL_FUNCTIONS == {"reverse_text", "text_info"}

Count(s, P(_)) == Cardinality({i \in 1..Len(s) : P(s[i])})

\* len(text.split()): the number of whitespace-delimited words
WordCount(s) ==
    Cardinality({i \in 1..Len(s) : s[i] # " " /\ (i = 1 \/ s[i - 1] = " ")})

NotSpace(c) == c # " "

\* server.py reverse_text(text); json.dumps(result) is the record under `json`
server_reverse_text(text, now) ==
    IF text.t \in {"str", "array"}
    THEN Return([json |-> [original_text |-> text.s,
                           reversed_text |-> Reversed(text.s),
                           length |-> Len(text.s),
                           timestamp |-> now]])
    ELSE IF text.t = "object" THEN Raise("TypeError", "unhashable type: 'slice'")
    ELSE Raise("TypeError", "'" \o TypeName(text.t) \o "' object is not subscriptable")

\* server.py text_info(text)
server_text_info(text, now) ==
    IF text.t = "str"
    THEN Return([json |-> [text |-> text.s,
                           length |-> Len(text.s),
                           word_count |-> WordCount(text.s),
                           character_count |-> Len(text.s),
                           character_count_no_spaces |-> Count(text.s, NotSpace),
                           uppercase_count |-> Count(text.s, IsUpper),
                           lowercase_count |-> Count(text.s, IsLower),
                           digit_count |-> Count(text.s, IsDigit),
                           timestamp |-> now]])
    ELSE IF text.t \in {"array", "object"}
    THEN Raise("AttributeError",
               "'" \o TypeName(text.t) \o "' object has no attribute 'split'")
    ELSE Raise("TypeError", "object of type '" \o TypeName(text.t) \o "' has no len()")

\* tool_func(**arguments) for tool_func = TOOL_FUNCTIONS[tool_name]
CallTool(tool_name, arguments, now) ==
    IF arguments.t # "object"
    THEN Raise("TypeError",
               tool_name \o "() argument after ** must be a mapping, not "
                         \o TypeName(arguments.t))
    ELSE IF arguments.target.t # "absent"
    THEN Raise("TypeError", tool_name \o "() got an unexpected keyword argument 'target'")
    ELSE IF arguments.text.t = "absent"
    THEN Raise("TypeError",
               tool_name \o "() missing 1 required positional argument: 'text'")
    ELSE IF tool_name = "reverse_text" THEN server_reverse_text(arguments.text, now)
    ELSE server_text_info(arguments.text, now)

---------------------------------------------------------------------------
(* server.py: POST /mcp *)

NoResult == [tag |-> "none"]

\* what mcp_endpoint hands back to the framework
Reply(status, id, result) ==
    [sig |-> "response", status |-> status, id |-> id, kind |-> "result",
     result |-> result, code |-> 0, message |-> ""]
ErrorReply(status, id, code, message) ==
    [sig |-> "response", status |-> status, id |-> id, kind |-> "error",
     result |-> NoResult, code |-> code, message |-> message]
\* `return None`: no response body
NoResponse ==
    [sig |-> "none", status |-> 200, id |-> JNull, kind |-> "none",
     result |-> NoResult, code |-> 0, message |-> ""]
\* an exception that leaves mcp_endpoint
Escapes(exc, message) ==
    [sig |-> "raised", status |-> 500, id |-> JNull, kind |-> exc,
     result |-> NoResult, code |-> 0, message |-> message]

NoGet(t) == "'" \o TypeName(t) \o "' object has no attribute 'get'"

\* method == "initialize"
OnInitialize(params, request_id) ==
    IF params.t # "object" THEN Raise("AttributeError", NoGet(params.t))
    ELSE Return(Reply(200, request_id,
                      [tag |-> "initialize",
                       protocolVersion |-> "2024-11-05",
                       capabilities |-> "tools",
                       serverInfo |-> [name |-> "reverse-text-mcp",
                                       version |-> "1.0.0"]]))

\* a handler that answers the notification like a request
OnInitialized_replies(request_id) ==
    Return(Reply(200, request_id, NoResult))

\* method == "initialized": return None
OnInitialized(request_id) ==
    Return(NoResponse)

\* a tools/list that does not echo the request's id
OnToolsList_null_id(request_id, tools) ==
    Return(Reply(200, JNull, [tag |-> "tools", tools |-> tools]))

\* method == "tools/list"
OnToolsList(request_id, tools) ==
    Return(Reply(200, request_id, [tag |-> "tools", tools |-> tools]))

\* method == "tools/call"
OnToolsCall(params, request_id, now, tool_functions) ==
    IF params.t # "object" THEN Raise("AttributeError", NoGet(params.t))
    ELSE
    LET tool_name == Get(params.name)
        arguments == IF params.arguments.t = "absent" THEN NoArgs
                     ELSE params.arguments
    IN
    \* `tool_name not in TOOL_FUNCTIONS` hashes tool_name
    IF tool_name.t \in {"array", "object"}
    THEN Raise("TypeError", "unhashable type: '" \o TypeName(tool_name.t) \o "'")
    ELSE IF ~(tool_name.t = "str" /\ tool_name.v \in tool_functions)
    THEN Return(ErrorReply(200, request_id, -32601,
                           "Tool '" \o tool_name.v \o "' not found"))
    ELSE
    LET call == CallTool(tool_name.v, arguments, now)
    IN IF call.exc = ""
       THEN Return(Reply(200, request_id,
                         [tag |-> "content", type |-> "text", text |-> call.value]))
       ELSE Return(ErrorReply(200, request_id, -32603,
                              "Tool execution failed: " \o call.msg))

\* any other method
OnUnknownMethod(method, request_id) ==
    Return(ErrorReply(200, request_id, -32601,
                      "Method '" \o method.v \o "' not found"))

\* the try block (lines 118-206): a reply, or the exception it raises
TryBlock(request_data, now, tools, tool_functions) ==
    IF request_data.body = "malformed"
    THEN Raise("JSONDecodeError", "Expecting value")
    ELSE IF request_data.body # "object"
    THEN Raise("AttributeError", NoGet(request_data.body))
    ELSE
    LET method == Get(request_data.method)
        params == IF request_data.params.t = "absent" THEN NoParams
                  ELSE request_data.params
        request_id == Get(request_data.id)
    IN
    IF method = JStr("initialize") THEN OnInitialize(params, request_id)
    ELSE IF method = JStr("initialized") THEN OnInitialized(request_id)
    ELSE IF method = JStr("tools/list") THEN OnToolsList(request_id, tools)
    ELSE IF method = JStr("tools/call")
    THEN OnToolsCall(params, request_id, now, tool_functions)
    ELSE OnUnknownMethod(method, request_id)

\* the whole handler: the try block and its two except clauses (lines 208-227)
mcp_endpoint(request_data, now, tools, tool_functions) ==
    LET tried == TryBlock(request_data, now, tools, tool_functions)
    IN
    IF tried.exc = "" THEN tried.value
    ELSE IF tried.exc = "JSONDecodeError"
    THEN ErrorReply(400, JNull, -32700, "Parse error")
    ELSE \* except Exception: the reply's id is request_data.get("id")
         IF request_data.body = "malformed"
         THEN ErrorReply(500, JNull, -32603, "Internal error: " \o tried.msg)
         ELSE IF request_data.body # "object"
         THEN Escapes("AttributeError", NoGet(request_data.body))
         ELSE ErrorReply(500, Get(request_data.id), -32603,
                         "Internal error: " \o tried.msg)

\* GET /health
health(now, tools) ==
    [status |-> "healthy", service |-> "reverse-text-mcp",
     tools_count |-> Len(tools), timestamp |-> now]

\* GET /mcp/discover
discover(tools) ==
    [service_name |-> "reverse-text-mcp", tools |-> tools,
     endpoints |-> [health |-> "/health", mcp |-> "/mcp", discover |-> "/mcp/discover"]]

---------------------------------------------------------------------------
(* The server: it awaits a request (op = "none"), a handler runs to its    *)
(* end, the framework sends what the handler returned and the server       *)
(* awaits the next request.                                                *)

Init ==
    /\ op = "none"
    /\ inp = <<>>
    /\ out = <<>>
    /\ clock = 0
    /\ TOOLS = InitialTOOLS
    /\ TOOL_FUNCTIONS = InitialTOOL_FUNCTIONS

Post_mcp ==
    /\ op = "none"
    /\ \E request_data \in Requests, now \in clock..MaxClock :
        /\ op' = "mcp_endpoint"
        /\ inp' = request_data
        /\ out' = mcp_endpoint(request_data, now, TOOLS, TOOL_FUNCTIONS)
        /\ clock' = now
    /\ UNCHANGED <<TOOLS, TOOL_FUNCTIONS>>

Get_health ==
    /\ op = "none"
    /\ \E now \in clock..MaxClock :
        /\ op' = "health"
        /\ inp' = <<>>
        /\ out' = health(now, TOOLS)
        /\ clock' = now
    /\ UNCHANGED <<TOOLS, TOOL_FUNCTIONS>>

Get_discover ==
    /\ op = "none"
    /\ \E now \in clock..MaxClock :
        /\ op' = "discover"
        /\ inp' = <<>>
        /\ out' = discover(TOOLS)
        /\ clock' = now
    /\ UNCHANGED <<TOOLS, TOOL_FUNCTIONS>>

\* the request/response cycle ends: nothing of it is kept
Sent ==
    /\ op \in {"mcp_endpoint", "health", "discover"}
    /\ op' = "none"
    /\ inp' = <<>>
    /\ out' = <<>>
    /\ UNCHANGED <<clock, TOOLS, TOOL_FUNCTIONS>>

Next == Post_mcp \/ Get_health \/ Get_discover \/ Sent

Spec == Init /\ [][Next]_vars

---------------------------------------------------------------------------
(* The tools of mcp_text_utils, each called on inputs drawn from bounded   *)
(* sets: inp holds the arguments of the calls made, out their outcomes.    *)

TruncateChars == {"a", " ", "."}
SuffixChars == {".", " "}

ToolIdle ==
    /\ out = <<>>
    /\ clock = 0
    /\ TOOLS = InitialTOOLS
    /\ TOOL_FUNCTIONS = InitialTOOL_FUNCTIONS

InitTruncate ==
    /\ op = "call truncate"
    /\ inp \in {<<text, max_length, suffix>> :
                    text \in StrUpTo(TruncateChars, MaxTextLen),
                    max_length \in (0 - MaxNegLength)..MaxLength,
                    suffix \in StrUpTo(SuffixChars, MaxSuffixLen)}
    /\ ToolIdle

Call_truncate ==
    /\ op = "call truncate"
    /\ op' = "truncate"
    /\ out' = <<truncate(inp[1], inp[2], inp[3])>>
    /\ UNCHANGED <<inp, clock, TOOLS, TOOL_FUNCTIONS>>

SpecTruncate == InitTruncate /\ [][Call_truncate]_vars

CaseTargets == {VALID_CASES[i] : i \in 1..Len(VALID_CASES)}
               \cup {"not_a_case", "camelcase", ""}

InitCase ==
    /\ op = "call transform_case"
    /\ inp \in {<<text, target>> :
                    text \in StrUpTo(Chars, MaxCaseLen), target \in CaseTargets}
    /\ ToolIdle

Call_transform_case ==
    /\ op = "call transform_case"
    /\ op' = "transform_case"
    /\ out' = <<transform_case(inp[1], inp[2])>>
    /\ UNCHANGED <<inp, clock, TOOLS, TOOL_FUNCTIONS>>

SpecCase == InitCase /\ [][Call_transform_case]_vars

InitReverse ==
    /\ op = "call reverse_text"
    /\ inp \in {<<text>> : text \in StrUpTo(Chars, MaxTextLen)}
    /\ ToolIdle

\* reverse_text(x)
Call_reverse_text ==
    /\ op = "call reverse_text"
    /\ op' = "reverse_text"
    /\ out' = <<reverse_text(inp[1])>>
    /\ UNCHANGED <<inp, clock, TOOLS, TOOL_FUNCTIONS>>

\* reverse_text(reverse_text(x).reversed)
Call_reverse_text_again ==
    /\ op = "reverse_text"
    /\ op' = "reverse_text again"
    /\ inp' = Append(inp, out[1].reversed)
    /\ out' = Append(out, reverse_text(out[1].reversed))
    /\ UNCHANGED <<clock, TOOLS, TOOL_FUNCTIONS>>

NextReverse == Call_reverse_text \/ Call_reverse_text_again

SpecReverse == InitReverse /\ [][NextReverse]_vars

---------------------------------------------------------------------------
(* Properties of the dispatcher (specification Spec) *)

\* a POST /mcp whose body decoded to a JSON object has just been handled
Handled == op = "mcp_endpoint" /\ inp.body = "object"

\* the handled request's method, params, arguments as the handler reads them
ReqMethod == Get(inp.method)
ReqParams == IF inp.params.t = "absent" THEN NoParams ELSE inp.params
ReqArguments ==
    IF ReqParams.arguments.t = "absent" THEN NoArgs ELSE ReqParams.arguments

IsKnownMethod(m) == m.t = "str" /\ m.v \in KnownMethods

\* C1: for every decoded request body, object or not, mcp_endpoint hands
\* back a response or the no-response signal; no exception leaves it
C1_NoExceptionEscapes ==
    (op = "mcp_endpoint" /\ inp.body # "malformed")
        => out.sig \in {"response", "none"}

\* C2: tools/call with a name that is no key of the registry yields error
\* -32601, and a method outside the four known ones yields error -32601 with
\* the message "Method '<method>' not found"
C2_UnknownToolOrMethodIs32601 ==
    Handled =>
        /\ (/\ ReqMethod = JStr("tools/call")
            /\ ReqParams.t = "object"
            /\ ~(ReqParams.name.t = "str" /\ ReqParams.name.v \in TOOL_FUNCTIONS))
           => (out.sig = "response" /\ out.kind = "error" /\ out.code = -32601)
        /\ ~IsKnownMethod(ReqMethod)
           => (/\ out.sig = "response" /\ out.kind = "error" /\ out.code = -32601
               /\ out.message = "Method '" \o ReqMethod.v \o "' not found")

\* str() of the exception that the tool function named `name` raises on
\* `arguments`, "" when it returns (or when the model has no such function)
ToolFailure(name, arguments, now) ==
    IF name \in InitialTOOL_FUNCTIONS THEN CallTool(name, arguments, now).msg
    ELSE IF /\ name = "transform_case"
            /\ arguments.t = "object"
            /\ arguments.text.t = "str"
            /\ arguments.target.t = "str"
    THEN transform_case(arguments.text.s, arguments.target.v).msg
    ELSE ""

\* C3: when the tool function named by a tools/call raises (transform_case
\* with an invalid target, a call with missing or unexpected arguments), the
\* response is error -32603 "Tool execution failed: <failure text>" with HTTP
\* status 200 and no result
C3_ToolFailureIs32603 ==
    (/\ Handled
     /\ ReqMethod = JStr("tools/call")
     /\ ReqParams.t = "object"
     /\ ReqParams.name.t = "str"
     /\ ToolFailure(ReqParams.name.v, ReqArguments, clock) # "")
        => out = ErrorReply(200, Get(inp.id), -32603,
                            "Tool execution failed: "
                                \o ToolFailure(ReqParams.name.v, ReqArguments, clock))

\* C4: a request with method "initialized" gets no response body, whatever
\* its id and params
C4_InitializedNoResponse ==
    (Handled /\ ReqMethod = JStr("initialized")) => out.sig = "none"

\* an "initialized" that carries an id and params that are no mapping has
\* been handled without a response
C4_Witness ==
    /\ Handled
    /\ ReqMethod = JStr("initialized")
    /\ inp.id = JNum("1")
    /\ inp.params.t = "array"
    /\ out = NoResponse

ListedNames(result) == {result.tools[i].name : i \in 1..Len(result.tools)}

\* C6: the registry never changes and tools/list returns exactly the seven
\* tools reverse_text, text_info, transform_case, slugify, extract_urls,
\* truncate, count_tokens
C6_RegistryFixedSevenTools ==
    /\ TOOLS = InitialTOOLS
    /\ TOOL_FUNCTIONS = InitialTOOL_FUNCTIONS
    /\ (Handled /\ ReqMethod = JStr("tools/list"))
        => (/\ out.sig = "response"
            /\ out.kind = "result"
            /\ ListedNames(out.result) = PackageTools)

---------------------------------------------------------------------------
(* Properties of transform_case (specification SpecCase) *)

\* C7: transform_case fails exactly when target is not one of the six valid
\* names: a valid target gives a result for every text, any other target a
\* validation error whose message lists the valid names
C7_FailsExactlyOnInvalidTarget ==
    op = "transform_case" =>
        IF InSeq(inp[2], VALID_CASES)
        THEN out[1].exc = ""
        ELSE /\ out[1].exc = "ValueError"
             /\ out[1].msg = "Unknown target case '" \o inp[2] \o "'. Valid: "
                    \o "snake_case, SCREAMING_SNAKE_CASE, camelCase, PascalCase, "
                    \o "kebab-case, Title Case"

---------------------------------------------------------------------------
(* Properties of truncate (specification SpecTruncate) *)

\* C8 as stated: for every integer max_length, a truncated result
\* (len(text) > max_length) is at most max_length long, and truncated_length
\* is the length of the returned string
C8_TruncatedWithinMaxLength ==
    op = "truncate" =>
        /\ out[1].truncated_length = Len(out[1].truncated)
        /\ Len(inp[1]) > inp[2]
            => (out[1].was_truncated /\ Len(out[1].truncated) <= inp[2])

\* C8, amended: for every max_length >= 0 a truncated result is at most
\* max_length long; truncated_length is the length of the returned string
\* for every max_length
C8_TruncatedWithinNonNegativeMaxLength ==
    op = "truncate" =>
        /\ out[1].truncated_length = Len(out[1].truncated)
        /\ (Len(inp[1]) > inp[2] /\ inp[2] >= 0)
            => (out[1].was_truncated /\ Len(out[1].truncated) <= inp[2])

\* a text cut at max_length - len(suffix), with a non-empty suffix appended,
\* that fills max_length exactly
C8_Witness ==
    /\ op = "truncate"
    /\ out[1].was_truncated
    /\ Len(inp[3]) > 0
    /\ inp[2] > Len(inp[3])
    /\ Len(out[1].truncated) = inp[2]

\* C9 as stated: a truncated result always ends with the suffix, and a text
\* no longer than max_length comes back unchanged with was_truncated false
C9_TruncatedEndsWithSuffix ==
    op = "truncate" =>
        /\ out[1].was_truncated <=> Len(inp[1]) > inp[2]
        /\ out[1].was_truncated => endswith(out[1].truncated, inp[3])
        /\ Len(inp[1]) <= inp[2]
            => (out[1].truncated = inp[1] /\ ~out[1].was_truncated)

\* C9, amended: a truncated result ends with the suffix whenever
\* max_length >= len(suffix) (below that it is the suffix clipped to
\* max_length); a text no longer than max_length comes back unchanged
C9_TruncatedEndsWithSuffixThatFits ==
    op = "truncate" =>
        /\ out[1].was_truncated <=> Len(inp[1]) > inp[2]
        /\ (out[1].was_truncated /\ inp[2] >= Len(inp[3]))
            => endswith(out[1].truncated, inp[3])
        /\ Len(inp[1]) <= inp[2]
            => (out[1].truncated = inp[1] /\ ~out[1].was_truncated)

\* a text backed off to a word boundary, its trailing space stripped, and a
\* suffix ending in a space appended
C9_Witness ==
    /\ op = "truncate"
    /\ out[1].was_truncated
    /\ Len(inp[3]) > 0
    /\ inp[3][Len(inp[3])] = " "
    /\ inp[2] > Len(inp[3])
    /\ Len(out[1].truncated) < inp[2]
    /\ endswith(out[1].truncated, inp[3])

---------------------------------------------------------------------------
(* Properties of reverse_text (specification SpecReverse) *)

\* C10: reverse_text is an involution that preserves length: reversing the
\* `reversed` field of reverse_text(x) gives back x, and `length` is the
\* same for x and for its reversal
C10_ReverseInvolution ==
    op = "reverse_text again" =>
        /\ out[2].reversed = inp[1]
        /\ out[2].length = out[1].length
        /\ out[1].length = Len(inp[1])

\* a text that is no palindrome has been reversed twice
C10_Witness ==
    /\ op = "reverse_text again"
    /\ Len(inp[1]) >= 2
    /\ out[1].reversed # inp[1]
    /\ out[2].reversed = inp[1]

---------------------------------------------------------------------------
(* mcp_text_utils/server.py: slugify.  A code point outside ASCII is        *)
(* written "U+xxxx".                                                       *)

\* e with acute accent, sharp s, the ligature fi; the combining acute accent
NonAsciiChars == {"U+00E9", "U+00DF", "U+FB01", "U+0301"}

SlugInputChars == {"a", "A", "1", "-", " ", "U+00E9", "U+00DF", "U+FB01"}

\* [a-z0-9]
SlugLetters == {"a", "b", "c", "d", "e", "f", "g", "h", "i", "j", "k", "l", "m",
                "n", "o", "p", "q", "r", "s", "t", "u", "v", "w", "x", "y", "z"}
SlugDigits == {"0", "1", "2", "3", "4", "5", "6", "7", "8", "9"}
IsSlugChar(c) == c \in SlugLetters \cup SlugDigits

\* unicodedata.normalize("NFKD", c) for one code point
NFKDChar(c) ==
    CASE c = "U+00E9" -> <<"e", "U+0301">>
      [] c = "U+FB01" -> <<"f", "i">>
      [] OTHER -> <<c>>

\* unicodedata.normalize("NFKD", s)
RECURSIVE NFKD(_)
NFKD(s) == IF Len(s) = 0 THEN <<>> ELSE NFKDChar(Head(s)) \o NFKD(Tail(s))

\* s.encode("ascii", "ignore").decode("ascii")
AsciiIgnore(s) == SelectSeq(s, LAMBDA c : c \notin NonAsciiChars)

\* re.sub(r"[^a-z0-9]+", "-", s), scanning from position i; in_run says that
\* the run being read has already been replaced
RECURSIVE SubNonSlug(_, _, _)
SubNonSlug(s, i, in_run) ==
    IF i > Len(s) THEN <<>>
    ELSE IF IsSlugChar(s[i]) THEN <<s[i]>> \o SubNonSlug(s, i + 1, FALSE)
    ELSE IF in_run THEN SubNonSlug(s, i + 1, TRUE)
    ELSE <<"-">> \o SubNonSlug(s, i + 1, TRUE)

\* s.strip("-")
RECURSIVE StripHyphens(_)
StripHyphens(s) ==
    IF Len(s) > 0 /\ s[1] = "-" THEN StripHyphens(Tail(s))
    ELSE IF Len(s) > 0 /\ s[Len(s)] = "-" THEN StripHyphens(SubSeq(s, 1, Len(s) - 1))
    ELSE s

\* a slugify that forgets slug.strip("-")
slugify_no_strip(text) ==
    [original |-> text,
     slug |-> SubNonSlug(lower(AsciiIgnore(NFKD(text))), 1, FALSE)]

slugify(text) ==
    [original |-> text,
     slug |-> StripHyphens(SubNonSlug(lower(AsciiIgnore(NFKD(text))), 1, FALSE))]

InitSlug ==
    /\ op = "call slugify"
    /\ inp \in {<<text>> : text \in StrUpTo(SlugInputChars, MaxSlugLen)}
    /\ ToolIdle

Call_slugify ==
    /\ op = "call slugify"
    /\ op' = "slugify"
    /\ out' = <<slugify(inp[1])>>
    /\ UNCHANGED <<inp, clock, TOOLS, TOOL_FUNCTIONS>>

SpecSlug == InitSlug /\ [][Call_slugify]_vars

---------------------------------------------------------------------------
(* Properties of slugify (specification SpecSlug) *)

\* C11: for every text the slug holds only a-z, 0-9 and '-', neither starts
\* nor ends with '-', and has no two consecutive '-' (it may be empty)
C11_SlugWellFormed ==
    op = "slugify" =>
        LET slug == out[1].slug
        IN /\ \A i \in 1..Len(slug) : IsSlugChar(slug[i]) \/ slug[i] = "-"
           /\ Len(slug) > 0 => (slug[1] # "-" /\ slug[Len(slug)] # "-")
           /\ \A i \in 1..(Len(slug) - 1) : ~(slug[i] = "-" /\ slug[i + 1] = "-")

\* a text that starts with a dropped code point and holds an accented
\* letter, a run of separators and an upper-case letter became "e-a"
C11_Witness ==
    /\ op = "slugify"
    /\ inp[1] = <<"U+00DF", "U+00E9", " ", "A">>
    /\ out[1].slug = <<"e", "-", "a">>

---------------------------------------------------------------------------
(* transform_case applied to its own output (specification SpecCaseTwice) *)

\* transform_case(transform_case(x, T).transformed, T)
Call_transform_case_again ==
    /\ op = "transform_case"
    /\ out[1].exc = ""
    /\ op' = "transform_case again"
    /\ inp' = <<out[1].value.transformed, inp[2]>>
    /\ out' = Append(out, transform_case(out[1].value.transformed, inp[2]))
    /\ UNCHANGED <<clock, TOOLS, TOOL_FUNCTIONS>>

NextCaseTwice == Call_transform_case \/ Call_transform_case_again

SpecCaseTwice == InitCase /\ [][NextCaseTwice]_vars

\* the second call returned what it was given
SecondCallReturnsSame ==
    /\ out[2].exc = ""
    /\ out[2].value.transformed = out[1].value.transformed

\* C13 as stated: for every valid target T, when transform_case(x, T)
\* returns y, transform_case(y, T) returns y again
C13_TransformCaseIdempotent ==
    op = "transform_case again" => SecondCallReturnsSame

\* C13, amended: for the targets snake_case, kebab-case and Title Case, when
\* transform_case(x, T) returns y, transform_case(y, T) returns y again
C13_TransformCaseIdempotentForSeparatedTargets ==
    (op = "transform_case again" /\ inp[2] \in {"snake_case", "kebab-case", "Title Case"})
        => SecondCallReturnsSame

\* a camelCase text of two words was converted to Title Case and the
\* conversion of the result gave the same "A A"
C13_Witness ==
    /\ op = "transform_case again"
    /\ inp[2] = "Title Case"
    /\ out[1].value.original = <<"a", "A">>
    /\ out[1].value.transformed = <<"A", " ", "A">>
    /\ out[2].value.transformed = <<"A", " ", "A">>

---------------------------------------------------------------------------
(* A session: the requests POSTed to /mcp so far (inp) and what            *)
(* mcp_endpoint returned for each (out), in order (specification           *)
(* SpecSession).                                                           *)

AbsentParams == Params("absent", Absent, Args("absent", Absent, Absent))

CallRequest(name, text, id) ==
    Request("object", JStr("tools/call"),
            Params("object", JStr(name), Args("object", text, Absent)), id)

SessionRequests ==
    {Request("object", JStr("initialize"), AbsentParams, JNum("1")),
     Request("object", JStr("initialized"), AbsentParams, Absent),
     Request("object", JStr("tools/list"), AbsentParams, JNum("1")),
     Request("object", JStr("tools/list"), AbsentParams, Absent),
     Request("object", JStr("ping"), AbsentParams, JNum("1")),
     Request("array", Absent, AbsentParams, Absent),
     CallRequest("reverse_text", JText(<<"a", "A">>), JNum("1")),
     CallRequest("text_info", JText(<<"a", "A">>), JNum("1")),
     CallRequest("reverse_text", Absent, JNum("1")),
     CallRequest("no_such_tool", JText(<<"a", "A">>), JNum("1"))}

InitSession ==
    /\ op = "session"
    /\ inp = <<>>
    /\ out = <<>>
    /\ clock = 0
    /\ TOOLS = InitialTOOLS
    /\ TOOL_FUNCTIONS = InitialTOOL_FUNCTIONS

\* a handshake that registers the tools again on every initialize
Session_post_reregisters ==
    /\ op = "session"
    /\ Len(inp) < MaxRequests
    /\ \E request_data \in SessionRequests, now \in clock..MaxClock :
        /\ inp' = Append(inp, request_data)
        /\ out' = Append(out, mcp_endpoint(request_data, now, TOOLS, TOOL_FUNCTIONS))
        /\ clock' = now
        /\ TOOLS' = IF request_data.body = "object"
                       /\ request_data.method = JStr("initialize")
                    THEN TOOLS \o InitialTOOLS
                    ELSE TOOLS
    /\ UNCHANGED <<op, TOOL_FUNCTIONS>>

\* POST /mcp: the handler runs on the module's TOOLS and TOOL_FUNCTIONS and
\* writes neither
Session_post ==
    /\ op = "session"
    /\ Len(inp) < MaxRequests
    /\ \E request_data \in SessionRequests, now \in clock..MaxClock :
        /\ inp' = Append(inp, request_data)
        /\ out' = Append(out, mcp_endpoint(request_data, now, TOOLS, TOOL_FUNCTIONS))
        /\ clock' = now
    /\ UNCHANGED <<op, TOOLS, TOOL_FUNCTIONS>>

SpecSession == InitSession /\ [][Session_post]_vars

\* a reply with the timestamp of a tool's result blanked
WithoutTimestamp(r) ==
    IF r.sig = "response" /\ r.kind = "result" /\ r.result.tag = "content"
    THEN [r EXCEPT !.result.text.json.timestamp = 0]
    ELSE r

====
